---- MODULE Spec2Model ----
(***************************************************************************)
(* HomDGCat mirror tool (src/main.py): the fetch engine (load_filelist,    *)
(* _file_ok, download_one, cmd_download) and the static-file server        *)
(* (SiteHandler, and the handler of _make_asgi_app).                       *)
(*                                                                         *)
(* The fetch engine is modelled as one main thread plus one task per       *)
(* submitted entry, interleaved at the granularity of single file-system   *)
(* operations.  The file system is a table of paths pointing to inodes, so *)
(* that a file renamed while another thread still holds it open for        *)
(* writing keeps receiving that thread's writes, as on POSIX.              *)
(***************************************************************************)
EXTENDS Integers, Sequences, FiniteSets

\* ------------------------------------------------------------------ bounds
MaxEntries == 2        \* longest manifest
MaxWorkers == 2        \* largest --workers value
MaxRetries == 3        \* largest --retry value when one entry is followed
BodyChunks == 2        \* resp.read(65536) chunks in a non-empty body
MaxLines   == 3        \* longest filelist.txt when its parsing is followed

\* ------------------------------------------------------- manifest entries
\* Lines a filelist.txt may hold.  "a.tmp" is the temp sibling of "a";
\* "../x" leaves site/ ; "e/nul" makes resolve() raise ValueError/OSError;
\* "lp/x" goes through a self-referencing symlink, for which
\* Path.resolve() raises RuntimeError on Python 3.8-3.12.
InsideNames == {"a", "a.tmp", "b"}
EntryNames  == InsideNames \cup {"../x", "e/nul", "lp/x"}

\* local_path.resolve().relative_to(SITE_DIR.resolve()): what it does for an
\* entry.  "inside": returns; "outside": relative_to raises ValueError;
\* "oserror": resolve raises ValueError/OSError; "loop": resolve raises
\* RuntimeError, which is neither.
resolve_kind(p) ==
  CASE p = "../x"  -> "outside"
    [] p = "e/nul" -> "oserror"
    [] p = "lp/x"  -> "loop"
    [] OTHER       -> "inside"

\* tmp_path = local_path.with_suffix(local_path.suffix + ".tmp")
tmp_path(p) ==
  CASE p = "a"     -> "a.tmp"
    [] p = "a.tmp" -> "a.tmp.tmp"
    [] p = "b"     -> "b.tmp"
    [] OTHER       -> "none.tmp"

Paths == InsideNames \cup {tmp_path(p) : p \in InsideNames}

\* ------------------------------------------------------------ file system
NumInodes == Cardinality(Paths) + MaxEntries
Hole      == <<"", 0>>
OldData   == << <<"old", 1>> >>

\* the body the origin serves for an entry, chunk by chunk
Body(p) == [k \in 1..BodyChunks |-> <<p, k>>]

VARIABLES
  lines,         \* filelist.txt as it is on disk, line by line
  filelist,      \* what load_filelist returned
  workers,       \* args.workers
  retry,         \* args.retry
  fs,            \* path -> inode (0: no such file)
  inode,         \* inode -> data, a sequence of chunks
  fs0,           \* file contents when the run started
  mainpc,        \* cmd_download: "init", "running", "finished", "killed", "crashed"
  to_download,   \* entries submitted to the pool
  pc,            \* task -> "idle", "queued", "get", "write", "done"
  attempt,       \* task -> loop variable of download_one
  hnd,           \* task -> inode of the open temp file
  total,         \* task -> chunks written in this attempt
  resp,          \* task -> kind of the response being streamed
  outcome,       \* task -> what download_one returned
  log,           \* task -> GETs and sleeps so far
  lastev,        \* task -> how the latest attempt went so far
  touched,       \* task -> paths it created, wrote, renamed or removed
  consumed,      \* tasks whose future the main loop has taken
  success, not_found, failed, total_bytes, failed_paths

\* the server: the mirror as SiteHandler sees it, and the last exchange
VARIABLES
  site,          \* path under site/ -> what is there
  stat,          \* path -> st_mtime_ns and st_size
  gzcache,       \* keys of _gzip_cached's LRU cache, oldest first
  req,           \* the last request
  rsp,           \* the response to it
  trace,         \* what _resolve_path did for it
  wk             \* handler thread -> where it is in a compressed GET of a.js

serveVars == <<site, stat, gzcache, req, rsp, trace, wk>>

fetchVars == <<lines, filelist, workers, retry, fs, inode, fs0, mainpc,
               to_download, pc, attempt, hnd, total, resp, outcome, log,
               lastev, touched, consumed, success, not_found, failed,
               total_bytes, failed_paths>>

argVars     == <<lines, filelist, workers, retry, serveVars>>
counterVars == <<consumed, success, not_found, failed, total_bytes, failed_paths>>

Tasks == 1..MaxEntries

NoOutcome == [ok |-> "unset", info |-> "", bytes |-> 0]
Outcome(ok, info, bytes) == [ok |-> ok, info |-> info, bytes |-> bytes]

\* what a reader sees at a path
Absent == [exists |-> FALSE, data |-> <<>>]
View(f, n, p) == IF f[p] = 0 THEN Absent
                 ELSE [exists |-> TRUE, data |-> n[f[p]]]
Snapshot(f, n) == [p \in Paths |-> View(f, n, p)]

\* inodes no path and no open handle refers to are released
Live(f, h) == {f[p] : p \in Paths} \cup {h[i] : i \in Tasks}
Collect(f, h, n) == [k \in 1..NumInodes |-> IF k \in Live(f, h) THEN n[k] ELSE <<>>]
FreeInode(f, h) == CHOOSE k \in 1..NumInodes :
                     /\ k \notin Live(f, h)
                     /\ \A j \in 1..NumInodes : j \notin Live(f, h) => k <= j

\* f.write(chunk) at offset off of a file holding data d
WriteAt(d, off, c) ==
  [k \in 1..(IF Len(d) > off + 1 THEN Len(d) ELSE off + 1) |->
     IF k = off + 1 THEN c ELSE IF k <= Len(d) THEN d[k] ELSE Hole]

exists_bigger_than_one(p) == fs[p] # 0 /\ Len(inode[fs[p]]) > 1

\* p.exists() and p.stat().st_size > 0
exists_nonempty(p) == fs[p] # 0 /\ Len(inode[fs[p]]) > 0

_file_ok_never(p) == FALSE

\* _file_ok(url_path); the RuntimeError case is handled by its caller
_file_ok(p) ==
  IF resolve_kind(p) \in {"outside", "oserror"} THEN FALSE
  ELSE exists_nonempty(p)

Get      == [op |-> "get",   t |-> 0]
Sleep(t) == [op |-> "sleep", t |-> t]

\* local_path.parent, as an element of touched
Dir(p) == "dir"

\* a backoff that grows by two seconds per attempt
TwoTimes(n) == 2 * n

\* 2 ** attempt
RECURSIVE Pow2(_)
Pow2(n) == IF n = 0 THEN 1 ELSE 2 * Pow2(n - 1)

\* what one urlopen() can bring: a body, an empty body, HTTPError 404,
\* another HTTPError, URLError or timeout
Responses == {"ok", "empty", "nf", "http5xx", "terr"}

\* str(e) of the exceptions download_one can catch, by what raised them:
\* urlopen ("http5xx", "terr"), resp.read ("readerr"), tmp_path.replace
\* ("enoent"), Path.resolve ("loop")
Str(ev) ==
  CASE ev = "http5xx" -> "HTTP Error 500: Internal Server Error"
    [] ev = "terr"    -> "<urlopen error timed out>"
    [] ev = "readerr" -> "IncompleteRead"
    [] ev = "enoent"  -> "[Errno 2] No such file or directory"
    [] ev = "loop"    -> "Symlink loop"
    [] OTHER          -> ""

\* --retry values tried with a batch (one attempt, or none at all)
BatchRetryArgs == {0, 1}

\* load_filelist(): the stripped lines that are neither blank nor comments
Manifests == UNION {[1..n -> EntryNames] : n \in 1..MaxEntries}

\* A line of filelist.txt is a sequence of tokens: blanks, the line end, "#"
\* and the text of a path.
\* line.strip()
RECURSIVE line_strip(_)
line_strip(line) ==
  IF line # <<>> /\ Head(line) \in {" ", "\n"} THEN line_strip(Tail(line))
  ELSE IF line # <<>> /\ line[Len(line)] \in {" ", "\n"}
  THEN line_strip(SubSeq(line, 1, Len(line) - 1))
  ELSE line

\* the loop of load_filelist over the lines of the file
RECURSIVE load_filelist(_)
load_filelist(file) ==
  IF file = <<>> THEN <<>>
  ELSE LET line == line_strip(Head(file)) IN
       (IF line # <<>> /\ Head(line) # "#" THEN <<Head(line)>> ELSE <<>>)
       \o load_filelist(Tail(file))

\* the file that holds exactly the paths of a manifest, one per line
Written(paths) == [k \in 1..Len(paths) |-> <<paths[k], "\n">>]

\* lines tried when the parsing is followed: a blank line, a comment, a
\* path, the same path with blanks around it, another path
FileLines ==
  {<<"\n">>, <<" ", "#", "a", "\n">>, <<"a", "\n">>, <<" ", "a", " ", "\n">>,
   <<"b", "\n">>}
Files ==
  {f \in UNION {[1..n -> FileLines] : n \in 0..MaxLines} :
     Len(load_filelist(f)) <= MaxEntries}

\* ------------------------------------------------------------------ Init
PathIndex(p) == CASE p = "a" -> 1 [] p = "a.tmp" -> 2 [] p = "a.tmp.tmp" -> 3
                  [] p = "b" -> 4 [] p = "b.tmp" -> 5 [] OTHER -> 0

IdleTasks ==
  /\ to_download = <<>>
  /\ pc = [i \in Tasks |-> "idle"]
  /\ attempt = [i \in Tasks |-> 0]
  /\ hnd = [i \in Tasks |-> 0]
  /\ total = [i \in Tasks |-> 0]
  /\ resp = [i \in Tasks |-> ""]
  /\ outcome = [i \in Tasks |-> NoOutcome]
  /\ log = [i \in Tasks |-> <<>>]
  /\ lastev = [i \in Tasks |-> ""]
  /\ touched = [i \in Tasks |-> {}]
  /\ consumed = {}
  /\ success = 0 /\ not_found = 0 /\ failed = 0 /\ total_bytes = 0
  /\ failed_paths = <<>>

\* The mirror as earlier runs may have left it: a target is absent, empty or
\* complete (targetStates); a temp sibling is absent or a leftover of a
\* killed run (tempStates).
FetchInit(manifests, retries, targetStates, tempStates) ==
  /\ filelist \in manifests
  /\ lines = Written(filelist)
  /\ workers \in 1..MaxWorkers
  /\ retry \in retries
  /\ \E pre \in [Paths -> {"absent", "empty", "old"}] :
       /\ \A p \in Paths :
            LET isTarget == \E k \in 1..Len(filelist) : filelist[k] = p
                isTemp   == \E k \in 1..Len(filelist) : tmp_path(filelist[k]) = p
            IN  /\ ~isTarget /\ ~isTemp => pre[p] = "absent"
                /\ isTarget => pre[p] \in targetStates
                /\ ~isTarget /\ isTemp => pre[p] \in tempStates
       /\ fs = [p \in Paths |-> IF pre[p] # "absent" THEN PathIndex(p) ELSE 0]
       /\ inode = [k \in 1..NumInodes |->
                     IF \E p \in Paths : PathIndex(p) = k /\ pre[p] = "old"
                     THEN OldData ELSE <<>>]
  /\ fs0 = Snapshot(fs, inode)
  /\ mainpc = "init"
  /\ IdleTasks

\* ---------------------------------------------------------- cmd_download
\* all_paths = load_filelist(), for a filelist.txt that exists
Load ==
  /\ mainpc = "load"
  /\ filelist' = load_filelist(lines)
  /\ mainpc' = "init"
  /\ UNCHANGED <<lines, workers, retry, serveVars, fs, inode, fs0, to_download,
                 pc, attempt, hnd, total, resp, outcome, log, lastev, touched,
                 counterVars>>

\* all_paths = load_filelist(); to_download = [p ... if not _file_ok(p)];
\* the pool is created and every entry submitted
Start ==
  /\ mainpc = "init"
  /\ IF \E k \in 1..Len(filelist) : resolve_kind(filelist[k]) = "loop"
     THEN \* _file_ok lets the RuntimeError through: the run ends here
          /\ mainpc' = "crashed"
          /\ UNCHANGED <<to_download, pc>>
     ELSE LET td == SelectSeq(filelist, LAMBDA p : ~_file_ok(p)) IN
          /\ to_download' = td
          /\ mainpc' = IF td = <<>> THEN "finished" ELSE "running"
          /\ pc' = [i \in Tasks |-> IF i <= Len(td) THEN "queued" ELSE "idle"]
  /\ UNCHANGED <<argVars, fs, inode, fs0, attempt, hnd, total, resp,
                 outcome, log, lastev, touched, counterVars>>

\* download_one returns
Return(i, ok, info, bytes) ==
  /\ pc' = [pc EXCEPT ![i] = "done"]
  /\ outcome' = [outcome EXCEPT ![i] = Outcome(ok, info, bytes)]

\* a loop that takes --retry as the number of attempts after the first
Retry_additional(i, isHTTPError, ev, got) ==
  /\ lastev' = [lastev EXCEPT ![i] = ev]
  /\ IF attempt[i] < retry
     THEN /\ pc' = [pc EXCEPT ![i] = "get"]
          /\ attempt' = [attempt EXCEPT ![i] = @ + 1]
          /\ log' = [log EXCEPT ![i] = @ \o got \o <<Sleep(Pow2(attempt[i]))>>]
          /\ outcome' = outcome
     ELSE /\ Return(i, "False", IF isHTTPError THEN "failed" ELSE Str(ev), 0)
          /\ attempt' = attempt
          /\ log' = [log EXCEPT ![i] = @ \o got]

\* the two except clauses of the retry loop, after tmp_path.unlink():
\* back off and go round again, or leave with the failure
Retry(i, isHTTPError, ev, got) ==
  /\ lastev' = [lastev EXCEPT ![i] = ev]
  /\ IF attempt[i] < retry - 1
     THEN /\ pc' = [pc EXCEPT ![i] = "get"]
          /\ attempt' = [attempt EXCEPT ![i] = @ + 1]
          /\ log' = [log EXCEPT ![i] = @ \o got \o <<Sleep(Pow2(attempt[i]))>>]
          /\ outcome' = outcome
     ELSE /\ Return(i, "False", IF isHTTPError THEN "failed" ELSE Str(ev), 0)
          /\ attempt' = attempt
          /\ log' = [log EXCEPT ![i] = @ \o got]

\* a cleanup that closes the file and leaves the temp file in place
Unlink_leaves_file(i) ==
  LET h == [hnd EXCEPT ![i] = 0]
  IN  /\ fs' = fs
      /\ hnd' = h
      /\ inode' = Collect(fs, h, inode)
      /\ total' = [total EXCEPT ![i] = 0]
      /\ resp' = [resp EXCEPT ![i] = ""]
      /\ touched' = touched

\* tmp_path.unlink(missing_ok=True) by task i, which has no file open after it
Unlink(i) ==
  LET t == tmp_path(to_download[i])
      f == [fs EXCEPT ![t] = 0]
      h == [hnd EXCEPT ![i] = 0]
  IN  /\ fs' = f
      /\ hnd' = h
      /\ inode' = Collect(f, h, inode)
      /\ total' = [total EXCEPT ![i] = 0]
      /\ resp' = [resp EXCEPT ![i] = ""]
      /\ touched' = [touched EXCEPT ![i] = @ \cup {t}]

HTTPErrorClause_retry404(i, r) ==
  /\ Unlink(i)
  /\ Retry(i, TRUE, r, <<Get>>)

\* except urllib.error.HTTPError as e, for the HTTPError urlopen raised
HTTPErrorClause(i, r) ==
  /\ Unlink(i)
  /\ IF r = "nf"
     THEN /\ Return(i, "False", "404", 0)
          /\ log' = [log EXCEPT ![i] = Append(@, Get)]
          /\ lastev' = [lastev EXCEPT ![i] = r]
          /\ UNCHANGED attempt
     ELSE Retry(i, TRUE, r, <<Get>>)

\* a pool thread takes the next queued entry: download_one up to the loop
Begin(i) ==
  /\ mainpc = "running"
  /\ pc[i] = "queued"
  /\ \A j \in 1..(i - 1) : pc[j] # "queued"
  /\ Cardinality({j \in Tasks : pc[j] \in {"get", "write"}}) < workers
  /\ LET p == to_download[i]
         k == resolve_kind(p)
     IN  IF k \in {"outside", "oserror"}
         THEN /\ Return(i, "False", "path traversal blocked", 0)
              /\ UNCHANGED touched
         ELSE IF k = "loop"
         THEN /\ Return(i, "False", Str("loop"), 0)
              /\ UNCHANGED touched
         ELSE IF exists_nonempty(p)
         THEN /\ Return(i, "None", "exists", 0)
              /\ UNCHANGED touched
         ELSE /\ touched' = [touched EXCEPT ![i] = @ \cup {Dir(p)}]
              /\ IF retry > 0
                 THEN /\ pc' = [pc EXCEPT ![i] = "get"]
                      /\ outcome' = outcome
                 ELSE Return(i, "False", "failed", 0)
  /\ UNCHANGED <<argVars, fs, inode, fs0, mainpc, to_download, attempt,
                 hnd, total, resp, log, lastev, counterVars>>

\* one urlopen(req, timeout=30) and what follows it up to the next
\* file-system operation
Request(i) ==
  /\ mainpc = "running"
  /\ pc[i] = "get"
  /\ \E r \in Responses :
       LET t == tmp_path(to_download[i]) IN
       CASE r \in {"ok", "empty"} ->
              \* open(tmp_path, "wb"): create, or truncate what is there
              LET k == IF fs[t] = 0 THEN FreeInode(fs, hnd) ELSE fs[t] IN
              /\ fs' = [fs EXCEPT ![t] = k]
              /\ hnd' = [hnd EXCEPT ![i] = k]
              /\ inode' = [inode EXCEPT ![k] = <<>>]
              /\ total' = [total EXCEPT ![i] = 0]
              /\ resp' = [resp EXCEPT ![i] = r]
              /\ pc' = [pc EXCEPT ![i] = "write"]
              /\ log' = [log EXCEPT ![i] = Append(@, Get)]
              /\ touched' = [touched EXCEPT ![i] = @ \cup {t}]
              /\ lastev' = [lastev EXCEPT ![i] = r]
              /\ UNCHANGED <<attempt, outcome>>
         [] r \in {"nf", "http5xx"} ->
              HTTPErrorClause(i, r)
         [] r = "terr" ->
              /\ Unlink(i)
              /\ Retry(i, FALSE, "terr", <<Get>>)
  /\ UNCHANGED <<argVars, fs0, mainpc, to_download, counterVars>>

\* chunk = resp.read(65536); f.write(chunk); total += len(chunk)
Write(i) ==
  /\ mainpc = "running"
  /\ pc[i] = "write"
  /\ resp[i] = "ok"
  /\ total[i] < BodyChunks
  /\ inode' = [inode EXCEPT ![hnd[i]] =
                 WriteAt(@, total[i], Body(to_download[i])[total[i] + 1])]
  /\ total' = [total EXCEPT ![i] = @ + 1]
  /\ UNCHANGED <<argVars, fs, fs0, mainpc, to_download, pc, attempt, hnd,
                 resp, outcome, log, lastev, touched, counterVars>>

\* resp.read raises before the body is complete (timeout, IncompleteRead)
ReadError(i) ==
  /\ mainpc = "running"
  /\ pc[i] = "write"
  /\ resp[i] = "ok"
  /\ total[i] < BodyChunks
  /\ Unlink(i)
  /\ Retry(i, FALSE, "readerr", <<>>)
  /\ UNCHANGED <<argVars, fs0, mainpc, to_download, counterVars>>

\* the body has ended: the file is closed, then replaced or discarded
Commit(i) ==
  /\ mainpc = "running"
  /\ pc[i] = "write"
  /\ total[i] = (IF resp[i] = "ok" THEN BodyChunks ELSE 0)
  /\ LET p == to_download[i]
         t == tmp_path(p)
     IN  IF total[i] > 0
         THEN IF fs[t] = 0
              THEN \* tmp_path.replace raises FileNotFoundError
                   /\ Unlink(i)
                   /\ Retry(i, FALSE, "enoent", <<>>)
              ELSE LET f == [fs EXCEPT ![p] = fs[t], ![t] = 0]
                       h == [hnd EXCEPT ![i] = 0]
                   IN  /\ fs' = f
                       /\ hnd' = h
                       /\ inode' = Collect(f, h, inode)
                       /\ touched' = [touched EXCEPT ![i] = @ \cup {t, p}]
                       /\ Return(i, "True", "", total[i])
                       /\ total' = [total EXCEPT ![i] = 0]
                       /\ resp' = [resp EXCEPT ![i] = ""]
                       /\ UNCHANGED <<attempt, log, lastev>>
         ELSE /\ Unlink(i)
              /\ Return(i, "False", "empty", 0)
              /\ UNCHANGED <<attempt, log, lastev>>
  /\ UNCHANGED <<argVars, fs0, mainpc, to_download, counterVars>>

\* the body of the as_completed loop for one finished future
Consume(i) ==
  /\ mainpc = "running"
  /\ pc[i] = "done"
  /\ i \notin consumed
  /\ LET o == outcome[i] IN
     /\ consumed' = consumed \cup {i}
     /\ success' = IF o.ok = "True" THEN success + 1 ELSE success
     /\ total_bytes' = IF o.ok = "True" THEN total_bytes + o.bytes ELSE total_bytes
     /\ not_found' = IF o.ok # "True" /\ o.info = "404" THEN not_found + 1 ELSE not_found
     /\ failed' = IF o.ok # "True" /\ o.info # "404" /\ o.ok # "None"
                  THEN failed + 1 ELSE failed
     /\ failed_paths' = IF o.ok # "True" /\ o.info # "404" /\ o.ok # "None"
                        THEN Append(failed_paths, <<to_download[i], o.info>>)
                        ELSE failed_paths
     /\ mainpc' = IF consumed \cup {i} = 1..Len(to_download) THEN "finished" ELSE "running"
  /\ UNCHANGED <<argVars, fs, inode, fs0, to_download, pc, attempt, hnd,
                 total, resp, outcome, log, lastev, touched>>

\* the process is killed: every thread stops where it is, the system closes
\* the open files, nothing is cleaned up and the process's memory is gone
Kill ==
  /\ mainpc = "running"
  /\ mainpc' = "killed"
  /\ inode' = Collect(fs, [i \in Tasks |-> 0], inode)
  /\ to_download' = <<>>
  /\ pc' = [i \in Tasks |-> "idle"]
  /\ attempt' = [i \in Tasks |-> 0]
  /\ hnd' = [i \in Tasks |-> 0]
  /\ total' = [i \in Tasks |-> 0]
  /\ resp' = [i \in Tasks |-> ""]
  /\ outcome' = [i \in Tasks |-> NoOutcome]
  /\ log' = [i \in Tasks |-> <<>>]
  /\ lastev' = [i \in Tasks |-> ""]
  /\ touched' = [i \in Tasks |-> {}]
  /\ consumed' = {}
  /\ success' = 0 /\ not_found' = 0 /\ failed' = 0 /\ total_bytes' = 0
  /\ failed_paths' = <<>>
  /\ UNCHANGED <<argVars, fs, fs0>>

\* ================================================================ server
\* Strings the server takes apart (request paths, header values, ETags) are
\* sequences of one-character strings; strings it only passes on are atoms.

\* bound: validators a client lists in one If-None-Match header
MaxValidators == 2

_gzip_cached_maxsize == 1024

_COMPRESSIBLE ==
  {<<".", "j", "s">>,
   <<".", "c", "s", "s">>,
   <<".", "h", "t", "m", "l">>,
   <<".", "j", "s", "o", "n">>,
   <<".", "s", "v", "g">>,
   <<".", "t", "x", "t">>,
   <<".", "x", "m", "l">>}

_STATIC_BIN ==
  {<<".", "p", "n", "g">>,
   <<".", "j", "p", "g">>,
   <<".", "j", "p", "e", "g">>,
   <<".", "g", "i", "f">>,
   <<".", "w", "e", "b", "p">>,
   <<".", "w", "o", "f", "f">>,
   <<".", "w", "o", "f", "f", "2">>,
   <<".", "w", "a", "v">>}

_MIME_MAP(ext) ==
  CASE ext = <<".", "j", "s">> -> "application/javascript; charset=utf-8"
    [] ext = <<".", "c", "s", "s">> -> "text/css; charset=utf-8"
    [] ext = <<".", "j", "s", "o", "n">> -> "application/json; charset=utf-8"
    [] ext = <<".", "h", "t", "m", "l">> -> "text/html; charset=utf-8"
    [] ext = <<".", "p", "n", "g">> -> "image/png"
    [] ext = <<".", "j", "p", "g">> -> "image/jpeg"
    [] ext = <<".", "j", "p", "e", "g">> -> "image/jpeg"
    [] ext = <<".", "g", "i", "f">> -> "image/gif"
    [] ext = <<".", "s", "v", "g">> -> "image/svg+xml; charset=utf-8"
    [] ext = <<".", "w", "e", "b", "p">> -> "image/webp"
    [] ext = <<".", "w", "a", "v">> -> "audio/wav"
    [] ext = <<".", "w", "o", "f", "f", "2">> -> "font/woff2"
    [] ext = <<".", "w", "o", "f", "f">> -> "font/woff"
    [] ext = <<".", "x", "m", "l">> -> "application/xml; charset=utf-8"
    [] ext = <<".", "t", "x", "t">> -> "text/plain; charset=utf-8"
    [] ext = <<".", "i", "c", "o">> -> "image/x-icon"
    [] OTHER -> "application/octet-stream"

IndexHtml == <<"i", "n", "d", "e", "x", ".", "h", "t", "m", "l">>

\* paths below SITE_DIR that name something
K_a     == <<"a", ".", "j", "s">>
K_enc   == <<"%", "6", "1", ".", "j", "s">>
K_d     == <<"d">>
K_dix   == K_d \o <<"/">> \o IndexHtml
K_idx   == <<"i", "n", "d", "e", "x", "/">> \o IndexHtml
K_up    == <<".", ".", "/", "s">>
K_l     == <<"l">>
K_rawup == <<"%", "2", "e", "%", "2", "e", "/", "s">>
SiteKeys == {K_a, K_enc, K_d, K_dix, K_idx, K_up, K_l, K_rawup}

\* request targets tried
RawPaths ==
  {<<"/">>,
   <<"/", "a", ".", "j", "s", "?", "v">>,
   <<"/", "%", "6", "1", ".", "j", "s">>,
   <<"/", "d", "/">>,
   <<"/", ".", ".", "/", "s">>,
   <<"/", "%", "2", "e", "%", "2", "e", "/", "s">>,
   <<"/", "l">>,
   <<"/", "n">>}

Gzip == <<"g", "z", "i", "p">>
\* Accept-Encoding values tried: none, gzip, and gzip refused (gzip;q=0)
GzipRefused == Gzip \o <<";", "q", "=", "0">>
AcceptEncodings == {<<>>, Gzip, GzipRefused}

\* ------------------------------------------------------- string functions
\* s.split(c)[0]
RECURSIVE Before(_, _)
Before(s, c) ==
  IF s = <<>> \/ Head(s) = c THEN <<>>
  ELSE <<Head(s)>> \o Before(Tail(s), c)

\* s.split(c)
RECURSIVE split(_, _)
split(s, c) ==
  IF \A k \in 1..Len(s) : s[k] # c THEN <<s>>
  ELSE <<Before(s, c)>> \o split(SubSeq(s, Len(Before(s, c)) + 2, Len(s)), c)

\* s.lstrip(c)
RECURSIVE lstrip(_, _)
lstrip(s, c) == IF s # <<>> /\ Head(s) = c THEN lstrip(Tail(s), c) ELSE s

RECURSIVE rstrip(_, _)
rstrip(s, c) ==
  IF s # <<>> /\ s[Len(s)] = c THEN rstrip(SubSeq(s, 1, Len(s) - 1), c) ELSE s

\* t.strip()
strip(s) == rstrip(lstrip(s, " "), " ")

\* sub in s
Contains(s, sub) ==
  \E k \in 0..(Len(s) - Len(sub)) : SubSeq(s, k + 1, k + Len(sub)) = sub

HexDigits == <<"0", "1", "2", "3", "4", "5", "6", "7",
               "8", "9", "a", "b", "c", "d", "e", "f">>
UpperHex == <<"A", "B", "C", "D", "E", "F">>
HexIs(k, c) == HexDigits[k] = c \/ (k > 10 /\ UpperHex[k - 10] = c)
IsHex(c) == \E k \in 1..16 : HexIs(k, c)
HexVal(c) == (CHOOSE k \in 1..16 : HexIs(k, c)) - 1

\* the character with code n, for the codes the request targets spell out
Chr(n) == CASE n = 37 -> "%" [] n = 46 -> "." [] n = 47 -> "/"
            [] n = 97 -> "a" [] OTHER -> "?"

\* urllib.parse.unquote: %XX with two hex digits becomes the character,
\* anything else stays
RECURSIVE unquote(_)
unquote(s) ==
  IF s = <<>> THEN <<>>
  ELSE IF Len(s) >= 3 /\ s[1] = "%" /\ IsHex(s[2]) /\ IsHex(s[3])
       THEN <<Chr(16 * HexVal(s[2]) + HexVal(s[3]))>> \o unquote(SubSeq(s, 4, Len(s)))
       ELSE <<Head(s)>> \o unquote(Tail(s))

\* format(n, "x") and str(n) for n >= 0
RECURSIVE Hex(_)
Hex(n) == IF n < 16 THEN <<HexDigits[n + 1]>>
          ELSE Hex(n \div 16) \o <<HexDigits[(n % 16) + 1]>>

RECURSIVE Dec(_)
Dec(n) == IF n < 10 THEN <<HexDigits[n + 1]>>
          ELSE Dec(n \div 10) \o <<HexDigits[(n % 10) + 1]>>

\* c.lower() on the letters that occur
lower(s) == [k \in 1..Len(s) |->
               CASE s[k] = "J" -> "j" [] s[k] = "S" -> "s" [] OTHER -> s[k]]

\* PurePath.name and PurePath.suffix
RECURSIVE name(_)
name(p) == IF \A k \in 1..Len(p) : p[k] # "/" THEN p
           ELSE name(SubSeq(p, Len(Before(p, "/")) + 2, Len(p)))

suffix(p) ==
  LET n    == name(p)
      dots == {k \in 1..Len(n) : n[k] = "."}
      i    == CHOOSE k \in dots : \A j \in dots : j <= k
  IN  IF dots = {} \/ i = 1 \/ i = Len(n) THEN <<>> ELSE SubSeq(n, i, Len(n))

\* ------------------------------------------------------------- the mirror
NoStat == [mtime |-> -1, size |-> -1]

\* (st_mtime_ns, st_size) a served file can have
StatPairs == {[mtime |-> 1,  size |-> 272],
              [mtime |-> 17, size |-> 16],
              [mtime |-> 1,  size |-> 16]}

Node(kind, inside) == [kind |-> kind, inside |-> inside]

\* fp.is_file()
is_file(fp) == fp \in DOMAIN site /\ site[fp].kind = "file"

\* target.resolve().relative_to(site_resolved) does not raise
contained(fp) == fp \in DOMAIN site /\ site[fp].inside

\* ------------------------------------------------------------ _resolve_path
IO(fp)      == [op |-> "is_file", key |-> fp]
Checked(fp) == [op |-> "check",   key |-> fp]

Resolved(fp, tr) == [found |-> TRUE,  target |-> fp,   trace |-> tr]
Unresolved(tr)   == [found |-> FALSE, target |-> <<>>, trace |-> tr]

\* lines 388-393: the containment check on the file that was found
guard(target, tr) ==
  IF contained(target) THEN Resolved(target, Append(tr, Checked(target)))
  ELSE Unresolved(Append(tr, Checked(target)))

\* the loop over (decoded, raw)
RECURSIVE try_candidates(_, _)
try_candidates(cands, tr) ==
  IF cands = <<>> THEN Unresolved(tr)
  ELSE
    LET stripped == lstrip(Head(cands), "/")
        fp       == rstrip(stripped, "/")          \* SITE_DIR / stripped
        ix       == fp \o <<"/">> \o IndexHtml     \* fp / "index.html"
    IN  IF stripped = <<>>
        THEN IF is_file(K_idx) THEN Resolved(K_idx, Append(tr, IO(K_idx)))
             ELSE try_candidates(Tail(cands), Append(tr, IO(K_idx)))
        ELSE IF is_file(fp) THEN guard(fp, Append(tr, IO(fp)))
        ELSE IF is_file(ix) THEN guard(ix, tr \o <<IO(fp), IO(ix)>>)
        ELSE try_candidates(Tail(cands), tr \o <<IO(fp), IO(ix)>>)

_resolve_path(path) ==
  LET raw     == Before(Before(path, "?"), "#")
      decoded == unquote(raw)
  IN  try_candidates(<<decoded, raw>>, <<>>)

\* ------------------------------------------------------------- _serve_file
\* f'"{stat.st_mtime_ns:x}-{stat.st_size:x}"'
_make_etag(st) == <<"\"">> \o Hex(st.mtime) \o <<"-">> \o Hex(st.size) \o <<"\"">>

_cache_control(ext) ==
  IF ext \in _STATIC_BIN \cup {<<".", "w", "o", "f", "f">>, <<".", "w", "o", "f", "f", "2">>}
  THEN "public, max-age=604800"
  ELSE IF ext \in {<<".", "j", "s">>, <<".", "c", "s", "s">>}
  THEN "public, max-age=86400"
  ELSE "public, max-age=3600"

H(n, v) == [name |-> n, value |-> v]

\* a response: status line, headers and kind of body, with the file it was
\* built from (file), the stat result used (st), whether the handler opened
\* the file to build it (opened) and which state of the file the body's
\* bytes come from (of)
NoResponse == [status |-> 0, headers |-> <<>>, body |-> "none",
               file |-> <<>>, st |-> NoStat, raised |-> FALSE,
               opened |-> FALSE, of |-> NoStat]

Response(status, headers, body, fp, st) ==
  [status |-> status, headers |-> headers, body |-> body,
   file |-> fp, st |-> st, raised |-> FALSE, opened |-> FALSE, of |-> NoStat]

\* an exception leaves the handler: no response is written
Raised(fp, st) ==
  [NoResponse EXCEPT !.file = fp, !.st = st, !.raised = TRUE, !.opened = TRUE]

\* send_error(code): an HTML page, left out for HEAD
send_error(code, method) ==
  Response(code, <<H("Content-Type", <<"text/html;charset=utf-8">>)>>,
           IF method = "HEAD" THEN "none" ELSE "errorpage", <<>>, NoStat)

listed_unstripped(etag, if_none) ==
  \E tokens \in {split(if_none, ",")} :
    \E k \in 1..Len(tokens) : tokens[k] = etag

\* some t.strip() for t in if_none.split(",") equals etag
listed(etag, if_none) ==
  \E tokens \in {split(if_none, ",")} :
    \E k \in 1..Len(tokens) : strip(tokens[k]) = etag

\* if_none and etag in (t.strip() for t in if_none.split(","))
if_none_match(etag, if_none) == if_none # <<>> /\ listed(etag, if_none)

\* the key of a call of _gzip_cached
Fingerprint(fp, st) == <<fp, st.mtime, st.size>>

\* a cache entry: the key and the compressed bytes, named by the state of
\* the file they were read from
Entry(key, of) == [key |-> key, of |-> of]

\* key is in the cache
cached(cache, key) == \E k \in 1..Len(cache) : cache[k].key = key

\* the bytes stored under key
stored(cache, key) == cache[CHOOSE k \in 1..Len(cache) : cache[k].key = key].of

lru_unordered(cache, key, of) ==
  IF cached(cache, key) THEN cache
  ELSE IF Len(cache) >= _gzip_cached_maxsize THEN Tail(cache) \o <<Entry(key, of)>>
  ELSE cache \o <<Entry(key, of)>>

\* functools.lru_cache: a hit becomes the most recent entry; a miss is stored
\* and the oldest entry dropped when the cache is full; a key some other
\* call stored in the meantime is left as it is
lru(cache, key, of) ==
  IF cached(cache, key)
  THEN SelectSeq(cache, LAMBDA e : e.key # key) \o <<Entry(key, stored(cache, key))>>
  ELSE IF Len(cache) >= _gzip_cached_maxsize THEN Tail(cache) \o <<Entry(key, of)>>
  ELSE cache \o <<Entry(key, of)>>

\* len(body) of the compressed body of the file with that fingerprint
GzLength(st) == <<"gzip of ">> \o Dec(st.size) \o <<" bytes at ">> \o Dec(st.mtime)

\* date_time_string(int(st.st_mtime))
LastModified(st) == <<"date ">> \o Dec(st.mtime \div 1000000000)

\* the headers of a 200 answer to GET (lines 456-466)
get_headers(ext, st, use_gzip) ==
  <<H("Content-Type", <<_MIME_MAP(ext)>>),
    H("Content-Length", IF use_gzip THEN GzLength(st) ELSE Dec(st.size)),
    H("ETag", _make_etag(st)), H("Cache-Control", <<_cache_control(ext)>>),
    H("Last-Modified", LastModified(st))>>
  \o (IF use_gzip
      THEN <<H("Content-Encoding", Gzip), H("Vary", <<"Accept-Encoding">>)>>
      ELSE <<>>)
  \o <<H("Access-Control-Allow-Origin", <<"*">>)>>

\* _serve_file(fp, head_only): the response and the cache it leaves.
\* io is what the file system does to this request: "ok", "stat_fails"
\* (fp.stat() raises OSError) or "read_fails" (open/read raises OSError).
_serve_file(fp, method, if_none, ae, io) ==
  LET st       == stat[fp]
      etag     == _make_etag(st)
      ext      == lower(suffix(fp))
      use_gzip == ext \in _COMPRESSIBLE /\ st.size > 256 /\ Contains(ae, Gzip)
      key      == Fingerprint(fp, st)
      hit      == cached(gzcache, key)
      length   == IF use_gzip THEN GzLength(st) ELSE Dec(st.size)
      encoding == IF use_gzip
                  THEN <<H("Content-Encoding", Gzip),
                         H("Vary", <<"Accept-Encoding">>)>>
                  ELSE <<>>
      cache    == IF use_gzip THEN lru(gzcache, key, st) ELSE gzcache
      body     == IF use_gzip THEN stored(cache, key) ELSE st
  IN
  IF io = "stat_fails"
  THEN [rsp |-> send_error(404, method), cache |-> gzcache]
  ELSE IF if_none_match(etag, if_none)
  THEN [rsp |-> Response(304,
                  <<H("ETag", etag), H("Cache-Control", <<_cache_control(ext)>>)>>
                  \o (IF ext \in _COMPRESSIBLE
                      THEN <<H("Vary", <<"Accept-Encoding">>)>> ELSE <<>>)
                  \o <<H("Access-Control-Allow-Origin", <<"*">>)>>,
                  "none", fp, st),
        cache |-> gzcache]
  ELSE IF use_gzip /\ ~hit /\ io = "read_fails"
  THEN [rsp |-> Raised(fp, st), cache |-> gzcache]
  ELSE IF method = "HEAD"
  THEN [rsp |-> [Response(200,
                  <<H("Content-Type", <<_MIME_MAP(ext)>>), H("Content-Length", length)>>
                  \o encoding
                  \o <<H("ETag", etag), H("Cache-Control", <<_cache_control(ext)>>),
                       H("Last-Modified", LastModified(st)),
                       H("Access-Control-Allow-Origin", <<"*">>)>>,
                  "none", fp, st)
                 EXCEPT !.opened = use_gzip /\ ~hit],
        cache |-> cache]
  ELSE IF ~use_gzip /\ io = "read_fails"
  THEN [rsp |-> [send_error(500, method) EXCEPT !.opened = TRUE], cache |-> cache]
  ELSE [rsp |-> [Response(200, get_headers(ext, st, use_gzip),
                  IF use_gzip THEN "gzip" ELSE "raw", fp, st)
                 EXCEPT !.opened = ~use_gzip \/ ~hit, !.of = body],
        cache |-> cache]

\* ------------------------------------------------------------- requests
\* what a client can list in If-None-Match: ETags it got for some state of
\* a file, or "*"
AnyStat == [mtime |-> 0, size |-> 0]
Validators == StatPairs \cup {AnyStat}
Token(v) == IF v = AnyStat THEN <<"*">> ELSE _make_etag(v)

RECURSIVE Join(_, _)
Join(tokens, sep) ==
  IF tokens = <<>> THEN <<>>
  ELSE IF Len(tokens) = 1 THEN tokens[1]
  ELSE tokens[1] \o sep \o Join(Tail(tokens), sep)

IfNoneMatch(vals, sep) == Join([k \in 1..Len(vals) |-> Token(vals[k])], sep)

ValidatorLists == UNION {[1..n -> Validators] : n \in 0..MaxValidators}

NoRequest == [method |-> "", path |-> <<>>, if_none |-> <<>>, vals |-> <<>>,
              ae |-> <<>>, io |-> "ok"]

\* do_GET / do_HEAD for the next request of a connection
Handle(method, path, vals, sep, ae, io) ==
  /\ req = NoRequest
  /\ req' = [method |-> method, path |-> path, if_none |-> IfNoneMatch(vals, sep),
             vals |-> vals, ae |-> ae, io |-> io]
  /\ \E r \in {_resolve_path(path)} :
       /\ trace' = r.trace
       /\ IF r.found
          THEN \E served \in {_serve_file(r.target, method, req'.if_none, ae, io)} :
                 rsp' = served.rsp /\ gzcache' = served.cache
          ELSE rsp' = send_error(404, method) /\ gzcache' = gzcache
  /\ UNCHANGED <<site, stat, wk, fetchVars>>

\* do_GET / do_HEAD return: the exchange is over
Finish ==
  /\ req # NoRequest
  /\ req' = NoRequest
  /\ rsp' = NoResponse
  /\ trace' = <<>>
  /\ UNCHANGED <<site, stat, gzcache, wk, fetchVars>>

\* between two exchanges a writer replaces a.js: its size or its mtime changes
Modify(st) ==
  /\ req = NoRequest
  /\ is_file(K_a)
  /\ st # stat[K_a]
  /\ stat' = [stat EXCEPT ![K_a] = st]
  /\ UNCHANGED <<site, gzcache, req, rsp, trace, wk, fetchVars>>

\* ------------------------------------------------- handler threads
\* The compressed GET of a.js step by step, as the threads of
\* ThreadingMixIn run it beside each other and beside a writer.

\* bounds: handler threads, and versions of a.js a writer installs
MaxHandlers == 2
MaxVersions == 3

Handlers == 1..MaxHandlers

IdleHandler == [pc |-> "idle", st |-> NoStat, of |-> NoStat]

\* st = fp.stat(); the file is compressible, large enough and gzip accepted
StatFile(h) ==
  /\ wk[h].pc = "idle"
  /\ is_file(K_a) /\ contained(K_a)
  /\ lower(suffix(K_a)) \in _COMPRESSIBLE /\ stat[K_a].size > 256
  /\ wk' = [wk EXCEPT ![h] = [pc |-> "statted", st |-> stat[K_a], of |-> NoStat]]
  /\ UNCHANGED <<site, stat, gzcache, req, rsp, trace, fetchVars>>

\* _gzip_cached(str(fp), st.st_mtime_ns, st.st_size): the cache is looked up
Lookup(h) ==
  /\ wk[h].pc = "statted"
  /\ \E key \in {Fingerprint(K_a, wk[h].st)} :
       IF cached(gzcache, key)
       THEN /\ wk' = [wk EXCEPT ![h].pc = "ready", ![h].of = stored(gzcache, key)]
            /\ gzcache' = lru(gzcache, key, wk[h].st)
       ELSE /\ wk' = [wk EXCEPT ![h].pc = "missed"]
            /\ gzcache' = gzcache
  /\ UNCHANGED <<site, stat, req, rsp, trace, fetchVars>>

\* the body of _gzip_cached: the file is read as it is now, compressed, and
\* stored under the key unless another thread has stored that key meanwhile
Compress(h) ==
  /\ wk[h].pc = "missed"
  /\ wk' = [wk EXCEPT ![h].pc = "ready", ![h].of = stat[K_a]]
  /\ \E key \in {Fingerprint(K_a, wk[h].st)} :
       gzcache' = IF cached(gzcache, key) THEN gzcache
                  ELSE lru(gzcache, key, stat[K_a])
  /\ UNCHANGED <<site, stat, req, rsp, trace, fetchVars>>

\* the 200 response goes out
Send(h) ==
  /\ wk[h].pc = "ready"
  /\ rsp' = [Response(200, get_headers(lower(suffix(K_a)), wk[h].st, TRUE),
                      "gzip", K_a, wk[h].st)
             EXCEPT !.of = wk[h].of]
  /\ wk' = [wk EXCEPT ![h] = IdleHandler]
  /\ UNCHANGED <<site, stat, gzcache, req, trace, fetchVars>>

\* a writer renames a new version of a.js into place
Replace ==
  /\ stat[K_a].mtime < MaxVersions
  /\ stat' = [stat EXCEPT ![K_a].mtime = @ + 1]
  /\ UNCHANGED <<site, gzcache, req, rsp, trace, wk, fetchVars>>

\* bounds: versions of a.js written beyond the capacity of the cache, and
\* entries the cache may hold while d's index is still asked for
Overfill == 2
EarlyEntries == 2

\* a writer rewrites a.js once its present version has been served compressed
Touch ==
  /\ req = NoRequest
  /\ cached(gzcache, Fingerprint(K_a, stat[K_a]))
  /\ stat[K_a].mtime < _gzip_cached_maxsize + Overfill
  /\ stat' = [stat EXCEPT ![K_a].mtime = @ + 1]
  /\ UNCHANGED <<site, gzcache, req, rsp, trace, wk, fetchVars>>

\* a client that accepts gzip asks for a.js, or for the index of d while the
\* cache is nearly empty or full
ServeCompressed ==
  /\ req = NoRequest
  /\ \E path \in {<<"/", "a", ".", "j", "s", "?", "v">>} \cup
                  (IF Len(gzcache) <= EarlyEntries \/ Len(gzcache) >= _gzip_cached_maxsize
                   THEN {<<"/", "d", "/">>} ELSE {}) :
       Handle("GET", path, <<>>, <<",">>, Gzip, "ok")

\* ------------------------------------------------------- asset files
\* A mirror of one file per extension of _MIME_MAP, one with an extension
\* the map does not know and one with no extension, fetched without
\* Accept-Encoding.
AssetExts ==
  _COMPRESSIBLE \cup _STATIC_BIN \cup {<<".", "i", "c", "o">>, <<".", "b", "i", "n">>, <<>>}

AssetName(ext) == <<"f">> \o ext
AssetKeys == {AssetName(ext) : ext \in AssetExts}

ServeAsset ==
  /\ req = NoRequest
  /\ \E method \in {"GET", "HEAD"}, ext \in AssetExts,
        vals \in {<<>>} \cup {<<v>> : v \in StatPairs} :
       Handle(method, <<"/">> \o AssetName(ext), vals, <<",">>, <<>>, "ok")

\* ------------------------------------------------------- the ASGI handler
\* _make_asgi_app: the handler hypercorn and starlette call.  The server
\* hands it the request target up to "?" as raw_path and its percent-decoded
\* form as the path; the route "/{path:path}" gives the path parameter
\* without the leading "/".
_CACHE_MAX_AGE(ext) ==
  IF ext \in {<<".", "p", "n", "g">>, <<".", "j", "p", "g">>,
              <<".", "j", "p", "e", "g">>, <<".", "g", "i", "f">>,
              <<".", "w", "e", "b", "p">>, <<".", "w", "o", "f", "f">>,
              <<".", "w", "o", "f", "f", "2">>, <<".", "w", "a", "v">>,
              <<".", "i", "c", "o">>}
  THEN 604800
  ELSE IF ext \in {<<".", "j", "s">>, <<".", "c", "s", "s">>}
  THEN 86400
  ELSE 3600

\* f"public, max-age={max_age}"
max_age_header(n) ==
  CASE n = 604800 -> "public, max-age=604800"
    [] n = 86400  -> "public, max-age=86400"
    [] OTHER      -> "public, max-age=3600"

\* '"' + md5(f"{st.st_mtime}-{st.st_size}").hexdigest() + '"': a digest of
\* the two numbers, written here as the text it is the digest of
_etag_for(st) ==
  <<"\"", "md5 of ">> \o Dec(st.mtime) \o <<"-">> \o Dec(st.size) \o <<"\"">>

\* _resolve(*candidates)
RECURSIVE _resolve(_)
_resolve(candidates) ==
  IF candidates = <<>> THEN [found |-> FALSE, target |-> <<>>]
  ELSE
    LET candidate == Head(candidates)
        fp        == rstrip(candidate, "/")         \* site / candidate
        ix        == fp \o <<"/">> \o IndexHtml
    IN  IF candidate = <<>> \/ candidate = <<"/">>
        THEN IF is_file(K_idx) THEN [found |-> TRUE, target |-> K_idx]
             ELSE _resolve(Tail(candidates))
        ELSE IF is_file(fp) \/ is_file(ix)
        THEN LET target == IF is_file(fp) THEN fp ELSE ix IN
             IF contained(target) THEN [found |-> TRUE, target |-> target]
             ELSE [found |-> FALSE, target |-> <<>>]
        ELSE _resolve(Tail(candidates))

\* handle(request) for a request target and its If-None-Match header: the
\* status, the file answered and the Cache-Control sent
handle(target, if_none) ==
  LET raw_path == Before(target, "?")
      path     == lstrip(unquote(raw_path), "/")
      raw      == lstrip(raw_path, "/")
      r        == _resolve(<<unquote(path), path, raw>>)
      st       == stat[r.target]
      etag     == _etag_for(st)
      ext      == lower(suffix(r.target))
      max_age  == _CACHE_MAX_AGE(ext)
  IN  IF ~r.found
      THEN [status |-> 404, file |-> <<>>, cache_control |-> ""]
      ELSE [status |-> IF if_none = <<"*">> \/ listed(etag, if_none)
                       THEN 304 ELSE 200,
            file |-> r.target,
            cache_control |-> max_age_header(max_age)]

\* requests of the mirror of InitShared: those of RawPaths, a doubly
\* encoded a.js, an icon and a picture
SharedPaths ==
  RawPaths \cup {<<"/", "%", "2", "5", "6", "1", ".", "j", "s">>,
                 <<"/">> \o AssetName(<<".", "i", "c", "o">>),
                 <<"/">> \o AssetName(<<".", "p", "n", "g">>)}

ServeShared ==
  /\ req = NoRequest
  /\ \E method \in {"GET", "HEAD"}, path \in SharedPaths,
        vals \in {<<>>} \cup {<<v>> : v \in Validators} :
       Handle(method, path, vals, <<",">>, <<>>, "ok")

\* no server runs beside the fetch engine
ServeIdle ==
  /\ site = [k \in SiteKeys |-> Node("none", TRUE)]
  /\ stat = [k \in SiteKeys |-> NoStat]
  /\ gzcache = <<>>
  /\ req = NoRequest
  /\ rsp = NoResponse
  /\ trace = <<>>
  /\ wk = [h \in Handlers |-> IdleHandler]

\* no fetch run beside the server
FetchIdle ==
  /\ lines = <<>>
  /\ filelist = <<>>
  /\ workers = 1
  /\ retry = 0
  /\ fs = [p \in Paths |-> 0]
  /\ inode = [k \in 1..NumInodes |-> <<>>]
  /\ fs0 = Snapshot(fs, inode)
  /\ mainpc = "finished"
  /\ IdleTasks

\* ------------------------------------------------------- specifications
vars == <<fetchVars, serveVars>>

\* a batch: several entries, several pool threads
Init ==
  /\ FetchInit(Manifests, BatchRetryArgs, {"absent", "old"}, {"absent"})
  /\ ServeIdle

\* one entry followed through all its attempts
InitOne ==
  /\ FetchInit({m \in Manifests : Len(m) = 1}, 0..MaxRetries,
               {"absent", "empty", "old"}, {"absent", "old"})
  /\ ServeIdle

\* the server over a mirror holding a.js, the directory d with an index
\* file, the root index (site/index may be a link to a directory elsewhere),
\* a link l to a file elsewhere, a file s beside the mirror, and possibly
\* files whose names hold percent text: %61.js, and s in a directory %2e%2e
InitServe ==
  /\ FetchIdle
  /\ \E idxInside \in BOOLEAN, hasEnc \in BOOLEAN :
       site = [k \in SiteKeys |->
                 CASE k \in {K_enc, K_rawup} ->
                        Node(IF hasEnc THEN "file" ELSE "none", TRUE)
                   [] k = K_d   -> Node("dir", TRUE)
                   [] k = K_idx -> Node("file", idxInside)
                   [] k \in {K_up, K_l} -> Node("file", FALSE)
                   [] OTHER     -> Node("file", TRUE)]
  /\ \E st \in StatPairs :
       stat = [k \in SiteKeys |-> IF k = K_a THEN st ELSE [mtime |-> 17, size |-> 16]]
  /\ gzcache = <<>>
  /\ req = NoRequest
  /\ rsp = NoResponse
  /\ trace = <<>>
  /\ wk = [h \in Handlers |-> IdleHandler]

\* the server over a mirror whose a.js and d/index.html are large enough to
\* be compressed
InitCache ==
  /\ FetchIdle
  /\ site = [k \in SiteKeys |->
               CASE k \in {K_enc, K_rawup} -> Node("none", TRUE)
                 [] k = K_d   -> Node("dir", TRUE)
                 [] k \in {K_up, K_l} -> Node("file", FALSE)
                 [] OTHER     -> Node("file", TRUE)]
  /\ stat = [k \in SiteKeys |->
               IF k = K_a THEN [mtime |-> 1, size |-> 272]
               ELSE IF k = K_dix THEN [mtime |-> 17, size |-> 272]
               ELSE [mtime |-> 17, size |-> 16]]
  /\ gzcache = <<>>
  /\ req = NoRequest
  /\ rsp = NoResponse
  /\ trace = <<>>
  /\ wk = [h \in Handlers |-> IdleHandler]

\* the server over the mirror of asset files
InitAssets ==
  /\ FetchIdle
  /\ site = [k \in AssetKeys |-> Node("file", TRUE)]
  /\ \E st \in StatPairs : stat = [k \in AssetKeys |-> st]
  /\ gzcache = <<>>
  /\ req = NoRequest
  /\ rsp = NoResponse
  /\ trace = <<>>
  /\ wk = [h \in Handlers |-> IdleHandler]

\* cmd_download from its first line, over a mirror in which a and b are
\* missing or left complete by an earlier run
InitLoad ==
  /\ lines \in Files
  /\ filelist = <<>>
  /\ workers = 1
  /\ retry = 1
  /\ \E pre \in [{"a", "b"} -> {"absent", "old"}] :
       /\ fs = [p \in Paths |->
                  IF p \in {"a", "b"} /\ pre[p] = "old" THEN PathIndex(p) ELSE 0]
       /\ inode = [k \in 1..NumInodes |->
                     IF \E p \in {"a", "b"} : PathIndex(p) = k /\ pre[p] = "old"
                     THEN OldData ELSE <<>>]
  /\ fs0 = Snapshot(fs, inode)
  /\ mainpc = "load"
  /\ IdleTasks
  /\ ServeIdle

\* the mirror of InitServe with an icon and a picture beside a.js
InitShared ==
  /\ FetchIdle
  /\ \E hasEnc \in BOOLEAN :
       site = [k \in SiteKeys \cup {AssetName(<<".", "i", "c", "o">>),
                                    AssetName(<<".", "p", "n", "g">>)} |->
                 CASE k \in {K_enc, K_rawup} ->
                        Node(IF hasEnc THEN "file" ELSE "none", TRUE)
                   [] k = K_d   -> Node("dir", TRUE)
                   [] k \in {K_up, K_l} -> Node("file", FALSE)
                   [] OTHER     -> Node("file", TRUE)]
  /\ stat = [k \in DOMAIN site |-> [mtime |-> 17, size |-> 16]]
  /\ gzcache = <<>>
  /\ req = NoRequest
  /\ rsp = NoResponse
  /\ trace = <<>>
  /\ wk = [h \in Handlers |-> IdleHandler]

Next ==
  \/ Start
  \/ \E i \in Tasks : Begin(i)
  \/ \E i \in Tasks : Request(i)
  \/ \E i \in Tasks : Write(i)
  \/ \E i \in Tasks : ReadError(i)
  \/ \E i \in Tasks : Commit(i)
  \/ \E i \in Tasks : Consume(i)
  \/ Kill

\* the connection is idle and a request arrives
Serve ==
  /\ req = NoRequest
  /\ \E method \in {"GET", "HEAD"}, path \in RawPaths, vals \in ValidatorLists,
        sep \in {<<",">>, <<",", " ">>}, ae \in AcceptEncodings,
        io \in {"ok", "stat_fails", "read_fails"} :
       Handle(method, path, vals, sep, ae, io)

NextServe ==
  \/ Serve
  \/ Finish
  \/ \E st \in StatPairs : Modify(st)

Spec      == Init /\ [][Next]_vars
SpecOne   == InitOne /\ [][Next]_vars
SpecServe == InitServe /\ [][NextServe]_vars

NextCache ==
  \/ ServeCompressed
  \/ Finish
  \/ Touch

SpecCache == InitCache /\ [][NextCache]_vars

NextWorkers ==
  \/ \E h \in Handlers : StatFile(h)
  \/ \E h \in Handlers : Lookup(h)
  \/ \E h \in Handlers : Compress(h)
  \/ \E h \in Handlers : Send(h)
  \/ Replace

SpecWorkers == InitCache /\ [][NextWorkers]_vars

NextLoad ==
  \/ Load
  \/ Start

SpecLoad == InitLoad /\ [][NextLoad]_vars

NextShared ==
  \/ ServeShared
  \/ Finish

SpecShared == InitShared /\ [][NextShared]_vars

NextAssets ==
  \/ ServeAsset
  \/ Finish

SpecAssets == InitAssets /\ [][NextAssets]_vars

\* ================================================================ claims
InsideEntry(p) == resolve_kind(p) = "inside"
Targets == {filelist[k] : k \in 1..Len(filelist)} \cap InsideNames
Now(p) == View(fs, inode, p)
Complete(v) == v.exists /\ \E q \in InsideNames : v.data = Body(q)
Submitted == 1..Len(to_download)
PresentAtStart(p) == /\ resolve_kind(p) \notin {"outside", "oserror"}
                     /\ p \in Paths
                     /\ fs0[p].exists
                     /\ Len(fs0[p].data) > 0
FullyPopulated == \A k \in 1..Len(filelist) : PresentAtStart(filelist[k])
Errors == {"http5xx", "terr", "readerr", "enoent"}

\* C1: at every moment of a fetch run each target path is absent, unchanged
\* from before the run, or holds a complete non-empty response body.
C1_TargetNeverPartial ==
  \A p \in Targets : Now(p) = Absent \/ Now(p) = fs0[p] \/ Complete(Now(p))

\* C2: when the process is killed, no target path holds a partial body: each
\* is absent, unchanged, or complete.
C2_KilledTargetNeverPartial ==
  mainpc = "killed" =>
    \A p \in Targets : Now(p) = Absent \/ Now(p) = fs0[p] \/ Complete(Now(p))

\* C3: an entry that does not resolve inside the mirror root gets the outcome
\* Failed "path traversal blocked" with no request and no file-system
\* operation, and the batch goes on.
C3_EscapingEntryBlocked ==
  /\ mainpc # "crashed"
  /\ \A i \in Tasks :
       pc[i] = "done" /\ ~InsideEntry(to_download[i]) =>
         /\ outcome[i] = Outcome("False", "path traversal blocked", 0)
         /\ log[i] = <<>>
         /\ touched[i] = {}

\* C4: the resolver checks containment of a candidate before it touches the
\* file system for it, every path it returns has passed the check, and a
\* failed check gives 404 and no exception.
C4_CheckedBeforeIO ==
  /\ \A n \in 1..Len(trace) :
       trace[n].op = "is_file" =>
         \E m \in 1..(n - 1) : trace[m] = Checked(trace[n].key)
  /\ rsp.file # <<>> => \E m \in 1..Len(trace) : trace[m] = Checked(rsp.file)
  /\ (\E m \in 1..Len(trace) : trace[m].op = "check" /\ ~contained(trace[m].key))
       => rsp.status = 404 /\ ~rsp.raised

C6_NotFoundEndsTheCall ==
  \A i \in Tasks :
    lastev[i] = "nf" =>
      /\ pc[i] = "done"
      /\ outcome[i] = Outcome("False", "404", 0)
      /\ log[i] # <<>> /\ log[i][Len(log[i])] = Get
      /\ Cardinality({k \in 1..Len(log[i]) : log[i][k] = Get}) = attempt[i] + 1
      /\ fs[tmp_path(to_download[i])] = 0

C6_Witness ==
  \E i \in Tasks :
    /\ lastev[i] = "nf"
    /\ attempt[i] >= 1
    /\ fs0[tmp_path(to_download[i])].exists

\* C7: when the last attempt fails with a non-404 error, the reason of the
\* Failed outcome is the description of that last error.
C7_ExhaustedReasonIsLastError ==
  \A i \in Tasks :
    pc[i] = "done" /\ retry >= 1 /\ lastev[i] \in Errors =>
      outcome[i] = Outcome("False", Str(lastev[i]), 0)

\* C8: a run that starts with every manifest entry on disk with non-zero
\* size submits nothing, sends no request and changes no file; and a
\* download_one call that answers AlreadyPresent has sent no request and
\* touched nothing.
C8_PopulatedMirrorNoRequests ==
  /\ FullyPopulated /\ mainpc # "init" =>
       /\ mainpc = "finished"
       /\ to_download = <<>>
       /\ \A i \in Tasks : pc[i] = "idle" /\ log[i] = <<>> /\ touched[i] = {}
  /\ FullyPopulated => Snapshot(fs, inode) = fs0
  /\ \A i \in Tasks :
       outcome[i].ok = "None" =>
         outcome[i].info = "exists" /\ log[i] = <<>> /\ touched[i] = {}

C8_Witness ==
  /\ FullyPopulated
  /\ mainpc = "finished"
  /\ Len(filelist) >= 2

\* the origin's answers for a path, and whether entry i got only such kinds
Answered(p) == {lastev[j] : j \in {j \in Submitted : to_download[j] = p}} \ {""}
Assigned(i, kinds) == Answered(to_download[i]) # {} /\ Answered(to_download[i]) \subseteq kinds

\* C9: when the run is finished the counters equal the distribution of the
\* origin's answers over the entries: success counts the entries whose path
\* the origin serves, not_found those it answers 404, failed those it fails,
\* total_bytes the bytes of the served bodies, whatever the pool size.
C9_CountsMatchDistribution ==
  ( /\ mainpc = "finished"
    /\ \A i \in Submitted :
         /\ InsideEntry(to_download[i])
         /\ \E ev \in {"ok", "nf", "http5xx", "terr"} : Answered(to_download[i]) = {ev} )
  => /\ success = Cardinality({i \in Submitted : Assigned(i, {"ok"})})
     /\ not_found = Cardinality({i \in Submitted : Assigned(i, {"nf"})})
     /\ failed = Cardinality({i \in Submitted : Assigned(i, {"http5xx", "terr"})})
     /\ total_bytes = BodyChunks * success

ETagOf(r) == {r.headers[k].value : k \in {j \in 1..Len(r.headers) : r.headers[j].name = "ETag"}}

\* C10: a GET or HEAD for a resolved file is answered 304, with no body,
\* exactly when If-None-Match lists the ETag of the file's present mtime and
\* size; ETags of different (mtime, size) pairs differ.
C10_CurrentETagGives304 ==
  /\ \A v, w \in StatPairs : _make_etag(v) = _make_etag(w) => v = w
  /\ rsp.file # <<>> =>
       /\ rsp.status = 304 <=> \E k \in 1..Len(req.vals) : req.vals[k] = rsp.st
       /\ rsp.status = 304 => rsp.body = "none" /\ ETagOf(rsp) = {_make_etag(rsp.st)}

C10_Witness ==
  /\ rsp.status = 304
  /\ req.method = "HEAD"
  /\ Len(req.vals) = 2
  /\ req.vals[1] \in StatPairs \ {rsp.st}
  /\ req.vals[2] = rsp.st
  /\ rsp.file = K_a
  /\ gzcache # <<>>

\* the response carries Content-Encoding: gzip and Vary: Accept-Encoding
Encoded(r) ==
  /\ \E k \in 1..Len(r.headers) : r.headers[k] = H("Content-Encoding", Gzip)
  /\ \E k \in 1..Len(r.headers) : r.headers[k] = H("Vary", <<"Accept-Encoding">>)

\* the Accept-Encoding value lists the coding gzip and does not refuse it
AcceptsGzip(ae) ==
  \E codings \in {split(ae, ",")} :
    \E k \in 1..Len(codings) :
      /\ strip(Before(codings[k], ";")) = Gzip
      /\ ~Contains(codings[k], <<"q", "=", "0">>)

\* C11: a 200 response is gzip-encoded (Content-Encoding: gzip, Vary:
\* Accept-Encoding, compressed body) exactly when the extension is
\* compressible, the size exceeds 256 and the request accepts gzip; otherwise
\* the raw bytes go out without Content-Encoding.
C11_GzipIffAllThree ==
  rsp.status = 200 /\ rsp.file # <<>> =>
    /\ Encoded(rsp) <=> /\ lower(suffix(rsp.file)) \in _COMPRESSIBLE
                        /\ rsp.st.size > 256
                        /\ AcceptsGzip(req.ae)
    /\ ~Encoded(rsp) =>
         \A k \in 1..Len(rsp.headers) : rsp.headers[k].name # "Content-Encoding"
    /\ req.method = "GET" => rsp.body = (IF Encoded(rsp) THEN "gzip" ELSE "raw")

\* the response the other method gets for the same request and file state
Counterpart ==
  _serve_file(rsp.file, IF req.method = "HEAD" THEN "GET" ELSE "HEAD",
              req.if_none, req.ae, req.io).rsp

\* C12: for a resolved file HEAD gets the status and the headers (names,
\* values, order) GET gets for the same request headers and file state, and
\* no body.
C12_HeadSameHeadersAsGet ==
  rsp.file # <<>> /\ req.io = "ok" =>
    /\ Counterpart.status = rsp.status
    /\ Counterpart.headers = rsp.headers
    /\ req.method = "HEAD" => rsp.body = "none"

\* the entries of a cache other than the one of key, in order
Others(cache, key) == SelectSeq(cache, LAMBDA e : e.key # key)

\* C13: the cache never holds more than 1024 entries; a compressed response
\* whose fingerprint is in the cache is built from the stored bytes without
\* opening the file, and the entry becomes the most recent one; a fingerprint
\* not in the cache (new file, changed mtime or size) is computed from the
\* file and stored as the most recent entry, the least recently used entry
\* being dropped when the cache is full.
C13_CacheIsLRU ==
  /\ [](Len(gzcache) <= _gzip_cached_maxsize)
  /\ [][req = NoRequest /\ rsp'.status = 200 /\ rsp'.body = "gzip" =>
          \E key \in {Fingerprint(rsp'.file, rsp'.st)} :
            /\ gzcache' # <<>> /\ gzcache'[Len(gzcache')].key = key
            /\ Others(gzcache', key) =
                 (IF ~cached(gzcache, key) /\ Len(gzcache) >= _gzip_cached_maxsize
                  THEN Tail(gzcache) ELSE Others(gzcache, key))
            /\ IF cached(gzcache, key)
               THEN ~rsp'.opened /\ rsp'.of = stored(gzcache, key)
                    /\ stored(gzcache', key) = stored(gzcache, key)
               ELSE rsp'.opened /\ rsp'.of = rsp'.st
                    /\ stored(gzcache', key) = rsp'.st]_vars

C13_Witness ==
  /\ Len(gzcache) = _gzip_cached_maxsize
  /\ cached(gzcache, Fingerprint(K_dix, stat[K_dix]))
  /\ ~cached(gzcache, Fingerprint(K_a, [mtime |-> 1, size |-> 272]))
  /\ rsp.status = 200 /\ rsp.body = "gzip" /\ ~rsp.opened

\* the state of the file that had the mtime and size of a fingerprint
StateOf(key) == [mtime |-> key[2], size |-> key[3]]

\* C14: whatever the interleaving of handler threads and writers, the bytes
\* stored under a fingerprint, and the bytes a handler serves for it, are
\* the compressed content the file had with that mtime and size.
C14_BytesMatchFingerprint ==
  /\ \A k \in 1..Len(gzcache) : gzcache[k].of = StateOf(gzcache[k].key)
  /\ \A h \in Handlers : wk[h].pc = "ready" => wk[h].of = wk[h].st
  /\ rsp.body = "gzip" => rsp.of = rsp.st

\* C15: once the path is resolved to a file, a failing stat gives 404 and a
\* failing read gives 500, for GET and HEAD, compressed or not; no exception
\* leaves the handler.
C15_LocalFailureIsAnError ==
  req # NoRequest /\ _resolve_path(req.path).found =>
    /\ ~rsp.raised
    /\ rsp.status \in {200, 304, 404, 500}
    /\ req.io = "stat_fails" => rsp.status = 404
    /\ req.io = "read_fails" /\ rsp.opened => rsp.status = 500

\* the step in which entry i's attempt fails: an except clause of the retry
\* loop runs, or download_one returns a Failed outcome
FailureStep(i) ==
  /\ mainpc' = "running"
  /\ pc[i] \in {"get", "write"}
  /\ \/ attempt'[i] # attempt[i]
     \/ pc'[i] = "done" /\ outcome'[i].ok = "False"

\* C16: the failure of one entry leaves the batch running, leaves every
\* other submitted entry where it was with its own outcome, and does not
\* modify, truncate or remove the target file of any other entry.
C16_FailureIsIsolated ==
  [][\A i \in Submitted :
       FailureStep(i) =>
         /\ \A j \in Submitted \ {i} :
              pc'[j] = pc[j] /\ outcome'[j] = outcome[j]
         /\ \A p \in Targets \ {to_download[i]} :
              View(fs', inode', p) = Now(p)]_vars

\* the files task i writes, renames or deletes: its target and its temp file
OwnFiles(i) == {to_download[i], tmp_path(to_download[i])}

\* C17: two entries being processed at the same time by different workers
\* work on disjoint files, whatever manifest load_filelist returned.
C17_WorkersFilesDisjoint ==
  \A i \in Submitted : \A j \in Submitted \ {i} :
    pc[i] \in {"get", "write"} /\ pc[j] \in {"get", "write"} =>
      OwnFiles(i) \cap OwnFiles(j) = {}

\* the raw form of the request path names a file, or a directory with an
\* index file, inside the root (the root path names the root index)
RawNamesFile(path) ==
  LET stripped == lstrip(Before(Before(path, "?"), "#"), "/")
      fp       == rstrip(stripped, "/")
      ix       == fp \o <<"/">> \o IndexHtml
  IN  IF stripped = <<>> THEN is_file(K_idx)
      ELSE \/ is_file(fp) /\ contained(fp)
           \/ ~is_file(fp) /\ is_file(ix) /\ contained(ix)

\* C18: not-found is declared only after the decoded and the raw form have
\* both been tried: a request whose raw form names an existing file inside
\* the root is resolved, whatever the decoded form gave.
C18_RawFormTriedBeforeNotFound ==
  req # NoRequest /\ RawNamesFile(req.path) =>
    /\ _resolve_path(req.path).found
    /\ req.io = "ok" => rsp.status # 404 /\ rsp.file # <<>>

\* C19: when the response arrived and its body ended with no byte read, the
\* call returns Failed "empty" in that step: the temp file is gone, the
\* target is what it was before the run, and no further attempt is made.
C19_EmptyBodyFails ==
  [][\A i \in Submitted :
       pc[i] = "write" /\ resp[i] = "empty" /\ mainpc' = "running" =>
         LET p == to_download[i] IN
         /\ pc'[i] = "done"
         /\ outcome'[i] = Outcome("False", "empty", 0)
         /\ View(fs', inode', tmp_path(p)) = Absent
         /\ View(fs', inode', p) = Now(p)
         /\ Now(p) = fs0[p]
         /\ attempt'[i] = attempt[i]
         /\ log'[i] = log[i]]_vars

\* an empty body on the first of two attempts, over a temp file left by an
\* earlier run: the call has returned with one request made
C19_Witness ==
  \E i \in Submitted :
    /\ pc[i] = "done"
    /\ lastev[i] = "empty"
    /\ outcome[i] = Outcome("False", "empty", 0)
    /\ attempt[i] = 0 /\ retry = 2
    /\ log[i] = <<Get>>
    /\ fs0[tmp_path(to_download[i])].exists
    /\ Now(tmp_path(to_download[i])) = Absent

\* the extensions _MIME_MAP gives an image, font or audio type, and those it
\* gives the script or style type
StaticAssets ==
  {ext \in AssetExts :
     _MIME_MAP(ext) \in {"image/png", "image/jpeg", "image/gif",
                         "image/svg+xml; charset=utf-8", "image/webp",
                         "image/x-icon", "font/woff2", "font/woff", "audio/wav"}}
ScriptsAndStyles ==
  {ext \in AssetExts :
     _MIME_MAP(ext) \in {"application/javascript; charset=utf-8",
                         "text/css; charset=utf-8"}}

CacheControlOf(r) ==
  {r.headers[k].value :
     k \in {j \in 1..Len(r.headers) : r.headers[j].name = "Cache-Control"}}

\* C20: the Cache-Control of an answered file is max-age=604800 exactly for
\* images, fonts and audio, max-age=86400 exactly for scripts and styles,
\* and max-age=3600 for markup and every other or unknown extension.
C20_CachePolicyByCategory ==
  rsp.status \in {200, 304} =>
    LET ext == lower(suffix(rsp.file)) IN
    CacheControlOf(rsp) =
      {<<IF ext \in StaticAssets THEN "public, max-age=604800"
         ELSE IF ext \in ScriptsAndStyles THEN "public, max-age=86400"
         ELSE "public, max-age=3600">>}

\* the lines of the file that are not blank and do not begin with "#"
Kept == SelectSeq([k \in 1..Len(lines) |-> line_strip(lines[k])],
                  LAMBDA line : line # <<>> /\ Head(line) # "#")

NoRepeat(paths) ==
  \A j \in 1..Len(paths) : \A k \in 1..Len(paths) : paths[j] = paths[k] => j = k

\* C21: load_filelist returns the kept lines in file order with no path
\* twice, and no target is submitted to the pool twice.
C21_ManifestIsOrderedSet ==
  mainpc \in {"init", "running", "finished"} =>
    /\ filelist = [k \in 1..Len(Kept) |-> Head(Kept[k])]
    /\ NoRepeat(filelist)
    /\ NoRepeat(to_download)

\* C22: the requests and sleeps of one call alternate, the sleep after
\* attempt n is 2^n, one sleep has been made per attempt left behind, a
\* sleep follows only an HTTP or transport error other than 404, and no
\* sleep is the last thing a call does.
C22_BackoffDoubles ==
  \A i \in Submitted :
    LET l == log[i] IN
    /\ \A k \in 1..Len(l) :
         l[k] = IF k % 2 = 1 THEN Get ELSE Sleep(2^((k \div 2) - 1))
    /\ Cardinality({k \in 1..Len(l) : l[k].op = "sleep"}) = attempt[i]
    /\ l # <<>> /\ l[Len(l)].op = "sleep" =>
         pc[i] = "get" /\ lastev[i] \in Errors /\ attempt[i] < retry
    /\ pc[i] = "done" /\ l # <<>> => l[Len(l)] = Get

\* three attempts that all fail: sleeps of 1 and 2 between them, none after
\* the last
C22_Witness ==
  \E i \in Submitted :
    /\ retry = 3
    /\ pc[i] = "done"
    /\ outcome[i].ok = "False"
    /\ lastev[i] \in {"http5xx", "terr"}
    /\ log[i] = <<Get, Sleep(1), Get, Sleep(2), Get>>

\* a step of task i's download_one call other than its successful return
UnsuccessfulStep(i) ==
  /\ mainpc' = "running"
  /\ pc[i] \in {"queued", "get", "write"}
  /\ <<pc[i], attempt[i], total[i], log[i]>> # <<pc'[i], attempt'[i], total'[i], log'[i]>>
  /\ outcome'[i].ok # "True"

\* C23: each failed attempt and each Failed return of a call leaves no temp
\* file of the entry on disk, and no step of a call other than its
\* successful rename changes the entry's target, so the target of a call
\* that fails is what it was before the call.
C23_FailedCallLeavesNoTrace ==
  [][\A i \in {j \in Submitted : InsideEntry(to_download[j])} :
       /\ FailureStep(i) =>
            View(fs', inode', tmp_path(to_download[i])) = Absent
       /\ UnsuccessfulStep(i) =>
            View(fs', inode', to_download[i]) = Now(to_download[i])]_vars

\* the GET requests task i has issued
Gets(i) == Cardinality({k \in 1..Len(log[i]) : log[i][k] = Get})

Asgi == handle(req.path, req.if_none)

\* C25: for every request the two handlers resolve the same file or both
\* answer 404, send the same Cache-Control, and agree on whether the answer
\* is 304.
C25_HandlersAgree ==
  req # NoRequest =>
    /\ _resolve_path(req.path).found <=> Asgi.status # 404
    /\ _resolve_path(req.path).found => Asgi.file = _resolve_path(req.path).target
    /\ rsp.status \in {200, 304} /\ Asgi.status # 404 =>
         CacheControlOf(rsp) = {<<Asgi.cache_control>>}
    /\ rsp.status = 304 <=> Asgi.status = 304
====
